---- MODULE Spec2Model ----
(***************************************************************************)
(* Session lifecycle and credential persistence of the WhatsApp gateway    *)
(* (src/lib/whatsapp.js, src/app.js, src/database/models/Session.js).      *)
(*                                                                         *)
(* The transport client (makeWASocket) and the relational store (Session)  *)
(* are external collaborators.  The model keeps what the repository's code *)
(* reads and writes of them:                                               *)
(*   - a client is the object makeWASocket returned: its authState.creds   *)
(*     (the very object passed as auth.creds), its user (the identity in   *)
(*     those credentials) and the state of its connection;                 *)
(*   - the handlers the code registers on a client stay registered, the    *)
(*     code never removes one, so every constructed client may raise its   *)
(*     notifications at any time;                                          *)
(*   - a store call is issued where the code calls it and completes in a   *)
(*     later step; calls in flight complete in any order (they run on a    *)
(*     connection pool).                                                   *)
(* Every `await` of the source splits a handler into the step before it    *)
(* and the step that resumes after it.                                     *)
(***************************************************************************)
EXTENDS Integers, Sequences, FiniteSets, TLC

\* ------------------------------------------------------------------ bounds
MaxClients == 3     \* initializeWhatsAppClient invocations (clients built)
MaxEvents  == 2     \* notifications the clients raise: close, creds.update, keys.set
MaxCodeLen == 9     \* length of a raw pairing code
NVals      == 2     \* distinct key records

KeyTypes == {"pre-key", "session"}
KeyIds   == {1, 2}
Clients  == 1..MaxClients

\* -------------------------------------------------------- credential state
\* A credential object: registration state and keys[type][id].  A key type
\* or the whole keys mapping may be missing (undefined in the source); a
\* record 0 is a missing id.  account is the signed device identity the
\* transport stores with the identity when a pairing succeeds: byte arrays
\* ("bytes") in the transport's object, "none" while undefined.
NoRecs  == [i \in KeyIds |-> 0]
NoType  == [present |-> FALSE, recs |-> NoRecs]
NoKeys  == [present |-> FALSE, types |-> [t \in KeyTypes |-> NoType]]
\* `{}` of src/lib/whatsapp.js:24, :36 and :91
EmptyCreds == [me |-> FALSE, registered |-> FALSE, ver |-> 0, keys |-> NoKeys,
               account |-> "none"]

\* JSON.stringify(creds): one entry <<property, type, id, value>> per
\* property that is defined; an undefined property leaves no entry.  No
\* replacer is given, so a byte array is written as a plain object of its
\* bytes.
Stringify(c) ==
    (IF c.me THEN {<<"me", "", 0, 1>>} ELSE {})
    \cup (IF c.account # "none" THEN {<<"account", "", 0, 1>>} ELSE {})
    \cup (IF c.registered THEN {<<"registered", "", 0, 1>>} ELSE {})
    \cup (IF c.ver > 0 THEN {<<"ver", "", 0, c.ver>>} ELSE {})
    \cup (IF c.keys.present THEN {<<"keys", "", 0, 0>>} ELSE {})
    \cup {<<"keys", t, 0, 0>> : t \in {u \in KeyTypes :
              c.keys.present /\ c.keys.types[u].present}}
    \cup {<<"keys", p[1], p[2], c.keys.types[p[1]].recs[p[2]]>> :
              p \in {q \in KeyTypes \X KeyIds :
                  /\ c.keys.present
                  /\ c.keys.types[q[1]].present
                  /\ c.keys.types[q[1]].recs[q[2]] # 0}}

\* JSON.parse(text): the object whose properties are the entries of text.
\* No reviver is given, so what was a byte array comes back as the plain
\* object ("object").
Parse(b) ==
    [me         |-> <<"me", "", 0, 1>> \in b,
     account    |-> IF <<"account", "", 0, 1>> \in b THEN "object" ELSE "none",
     registered |-> <<"registered", "", 0, 1>> \in b,
     ver        |-> IF \E e \in b : e[1] = "ver"
                    THEN (CHOOSE e \in b : e[1] = "ver")[4] ELSE 0,
     keys       |->
        [present |-> <<"keys", "", 0, 0>> \in b,
         types   |-> [t \in KeyTypes |->
            [present |-> <<"keys", t, 0, 0>> \in b,
             recs    |-> [i \in KeyIds |->
                IF \E e \in b : e[1] = "keys" /\ e[2] = t /\ e[3] = i
                THEN (CHOOSE e \in b : e[1] = "keys" /\ e[2] = t /\ e[3] = i)[4]
                ELSE 0]]]]]

\* The Session table (src/database/models/Session.js): at most one row for
\* the session id, holding the serialized credentials.
NoRow == [exists |-> FALSE, creds |-> {}]
RowOf(text) == [exists |-> TRUE, creds |-> text]


\* The rows the store may hold when the process starts: none (a new
\* registration), a paired account whose blob has no key mapping, and a
\* paired account whose blob maps one key type.
PairedCreds == [me |-> TRUE, registered |-> TRUE, ver |-> 0, keys |-> NoKeys,
                account |-> "bytes"]
PairedWithKeys ==
    [PairedCreds EXCEPT !.keys =
        [present |-> TRUE,
         types   |-> [t \in KeyTypes |->
                        IF t = "pre-key"
                        THEN [present |-> TRUE, recs |-> [i \in KeyIds |-> IF i = 1 THEN 1 ELSE 0]]
                        ELSE NoType]]]
InitRows == {NoRow, RowOf(Stringify(PairedCreds)), RowOf(Stringify(PairedWithKeys))}

\* ------------------------------------------------------------------- state
VARIABLES
    boot,           \* position of startServer (src/app.js:97)
    row,            \* the Session row of the session id
    saveLog,        \* history: every saveCreds invocation, in invocation order
    pendingWrites,  \* indexes in saveLog of the upserts still in flight
    waSocket,       \* module variable waSocket: the latest client, 0 = undefined
    sessionCreds,   \* module variable sessionCreds: the client whose creds object
                    \* it refers to, 0 = a fresh `{}` no client holds
    creds,          \* the object waSocket holds as authState.creds
    sessionRecord,  \* sessionRecord[g]: the row captured by the closures of
                    \* client g's bridge
    status,         \* status[g]: the last lifecycle notification of client g
    subs,           \* clients carrying the connection.update/creds.update handlers
    timers,         \* reconnect timers set and not yet fired
    initLoading,    \* invocations whose Session.findByPk the store has not run yet
    loaded,         \* what the store read for the invocations not yet resumed
    destroying,     \* logout handlers whose Session.destroy the store has not run yet
    destroyed,      \* logout handlers whose delete is done and not yet resumed
    initFailed,     \* history: invocations ended by a rejected Session.findByPk
    opening,        \* open handlers waiting for axios.get
    nCloses,        \* close notifications raised so far
    logoutHandled,  \* history: some logout handler ran to its end
    freshDue,       \* history: a logout was handled and no initialize ran since
    staleCreds,     \* staleCreds[g]: the object a superseded client g holds as
                    \* authState.creds
    resp            \* what the step just taken returned to its caller

vars == <<boot, row, saveLog, pendingWrites, waSocket, sessionCreds, creds,
          sessionRecord, status, subs, timers, initLoading,
          destroying, nCloses, logoutHandled, freshDue, staleCreds, opening,
          loaded, destroyed, initFailed, resp>>

\* op names the operation; the other fields are what it observed and returned.
NoResp == [op |-> "none", active |-> FALSE, superseded |-> FALSE,
           result |-> "", calls |-> 0, raw |-> <<>>, code |-> <<>>,
           val |-> 0, expect |-> 0, wasSet |-> FALSE,
           connection |-> "", user |-> FALSE, message |-> "",
           to |-> <<>>, toIsString |-> TRUE, rcpt |-> <<>>, key |-> FALSE]

Init ==
    /\ boot = "validate"
    /\ row \in InitRows
    /\ saveLog = <<>>
    /\ pendingWrites = {}
    /\ waSocket = 0
    /\ sessionCreds = 0
    /\ creds = EmptyCreds
    /\ sessionRecord = [g \in Clients |-> NoRow]
    /\ status = [g \in Clients |-> "none"]
    /\ subs = {}
    /\ timers = 0
    /\ initLoading = 0
    /\ destroying = 0
    /\ nCloses = 0
    /\ logoutHandled = FALSE
    /\ freshDue = FALSE
    /\ staleCreds = [g \in Clients |-> EmptyCreds]
    /\ opening = 0
    /\ loaded = <<>>
    /\ destroyed = 0
    /\ initFailed = 0
    /\ resp = NoResp

\* ------------------------------------------------------- derived quantities
\* waSocket.user: the identity held in the client's credentials.
User == creds.me

\* The object sessionCreds refers to: the one waSocket holds, or a fresh {}.
Mirror == IF sessionCreds # 0 /\ sessionCreds = waSocket THEN creds ELSE EmptyCreds

\* getWhatsAppClient: null (0) unless waSocket and waSocket.user are set.
GetWhatsAppClient ==
    IF waSocket = 0 \/ ~User THEN 0 ELSE waSocket

\* The connection state of the session: that of the latest client.
ConnState ==
    IF waSocket = 0 THEN "Uninitialized"
    ELSE CASE status[waSocket] = "connecting" -> "Connecting"
           [] status[waSocket] = "open"       -> "Open"
           [] status[waSocket] = "closed"     -> "Closed"
           [] OTHER                            -> "LoggedOut"

\* resp holds what a step returned until its caller has taken it (Return);
\* the next step starts after that.
Idle == resp = NoResp

Return ==
    /\ resp # NoResp
    /\ resp' = NoResp
    /\ UNCHANGED <<boot, row, saveLog, pendingWrites, waSocket, sessionCreds,
                   creds, sessionRecord, status, subs, timers,
                   initLoading, destroying, nCloses, logoutHandled, freshDue, staleCreds, opening, loaded, destroyed, initFailed>>

\* Notifications raised so far that the handlers acted on by a save or a
\* close.
Events == Len(saveLog) + nCloses

\* initializeWhatsAppClient invocations so far: the clients built, the
\* invocations still waiting for their load and those whose load failed.
InitCalls == Cardinality(subs) + initLoading + Len(loaded) + initFailed

\* ----------------------------------------------------------------- startup
\* validateApiKey calling the entitlement check before it looks for the key.
ValidateApiKeyChecksFirst(keyPresent, check) ==
    [NoResp EXCEPT !.op = "validate", !.key = keyPresent, !.calls = 1,
        !.result = IF check = "throws" THEN "CheckFailed"
                   ELSE IF check = "invalid" THEN "EntitlementInvalid"
                   ELSE IF ~keyPresent THEN "ConfigMissing"
                   ELSE "ok"]

\* validateApiKey: what one invocation does and returns, given whether
\* JKT48_API_KEY is set and what jkt48Api.check answers (a status, or it
\* throws).  A missing key throws before the check is called.
ValidateApiKeyResp(keyPresent, check) ==
    IF ~keyPresent
    THEN [NoResp EXCEPT !.op = "validate", !.result = "ConfigMissing"]
    ELSE [NoResp EXCEPT !.op = "validate", !.key = TRUE, !.calls = 1,
             !.result = CASE check = "valid"   -> "ok"
                          [] check = "invalid" -> "EntitlementInvalid"
                          [] OTHER             -> "CheckFailed"]

\* startServer awaits validateApiKey: whatever it throws is caught and the
\* process exits.
ValidateApiKey ==
    /\ Idle
    /\ boot = "validate"
    /\ \E keyPresent \in BOOLEAN, check \in {"valid", "invalid", "throws"} :
        LET r == ValidateApiKeyResp(keyPresent, check) IN
        /\ resp' = r
        /\ boot' = IF r.result = "ok" THEN "connectDB" ELSE "exited"
    /\ UNCHANGED <<row, saveLog, pendingWrites, waSocket, sessionCreds, creds,
                   sessionRecord, status, subs, timers, initLoading,
                   destroying, nCloses, logoutHandled, freshDue, staleCreds, opening, loaded, destroyed, initFailed>>

\* connectDB, then the call of initializeWhatsAppClient() up to its await.
ConnectDB ==
    /\ Idle
    /\ boot = "connectDB"
    /\ \E reachable \in BOOLEAN :
          IF reachable
          THEN /\ boot' = "initialize"
               /\ initLoading' = initLoading + 1
          ELSE /\ boot' = "exited"
               /\ UNCHANGED initLoading
    /\ resp' = NoResp
    /\ UNCHANGED <<row, saveLog, pendingWrites, waSocket, sessionCreds, creds,
                   sessionRecord, status, subs, timers,
                   destroying, nCloses, logoutHandled, freshDue, staleCreds, opening, loaded, destroyed, initFailed>>

Running == boot \in {"initialize", "listening"}

\* -------------------------------------------------- initializeWhatsAppClient
\* The store runs the Session.findByPk of one waiting invocation: it reads
\* the row as it is now; the invocation resumes in a later step.
FindByPkReads ==
    /\ Idle
    /\ Running
    /\ initLoading > 0
    /\ initLoading' = initLoading - 1
    /\ loaded' = Append(loaded, row)
    /\ resp' = NoResp
    /\ UNCHANGED <<boot, row, saveLog, pendingWrites, waSocket, sessionCreds,
                   creds, sessionRecord, status, subs, timers, destroying,
                   nCloses, logoutHandled, freshDue, staleCreds, opening,
                   destroyed, initFailed>>

\* The sequence s without its k-th element.
Without(s, k) == SubSeq(s, 1, k - 1) \o SubSeq(s, k + 1, Len(s))

\* An invocation resumes with the record the store read for it and runs to
\* its end: the loaded (or empty) credentials become sessionCreds, a client
\* is built on them, it becomes waSocket, and both handlers are registered
\* on it.  The startup invocation's caller then starts listening.
InitializeWhatsAppClient ==
    /\ Idle
    /\ Running
    /\ \E k \in DOMAIN loaded :
        LET g == Cardinality(subs) + 1
            rec == loaded[k]
        IN /\ sessionRecord' = [sessionRecord EXCEPT ![g] = rec]
           /\ creds' = IF rec.exists THEN Parse(rec.creds) ELSE EmptyCreds
           /\ sessionCreds' = g
           /\ waSocket' = g
           /\ status' = [status EXCEPT ![g] = "connecting"]
           /\ subs' = subs \cup {g}
           /\ loaded' = Without(loaded, k)
    /\ boot' = "listening"
    /\ staleCreds' = IF waSocket = 0 THEN staleCreds
                     ELSE [staleCreds EXCEPT ![waSocket] = creds]
    /\ freshDue' = FALSE
    /\ resp' = NoResp
    /\ UNCHANGED <<row, saveLog, pendingWrites, timers, initLoading,
                   destroying, nCloses, logoutHandled, opening, destroyed, initFailed>>

\* The 5 s timer of a non-logout close fires: initializeWhatsAppClient is
\* invoked and runs up to its await.
ReconnectTimer ==
    /\ Idle
    /\ Running
    /\ timers > 0
    /\ InitCalls < MaxClients
    /\ timers' = timers - 1
    /\ initLoading' = initLoading + 1
    /\ resp' = NoResp
    /\ UNCHANGED <<boot, row, saveLog, pendingWrites, waSocket, sessionCreds,
                   creds, sessionRecord, status, subs,
                   destroying, nCloses, logoutHandled, freshDue, staleCreds, opening, loaded, destroyed, initFailed>>

\* ---------------------------------------------------------------- saveCreds
\* saveCreds writing the credentials of the client whose closure runs.
SaveCredsOwn(kind, t, i, v, own, latest) ==
    /\ saveLog' = Append(saveLog,
          [sock |-> waSocket, kind |-> kind, text |-> Stringify(own),
           creds |-> own, type |-> t, id |-> i, val |-> v])
    /\ pendingWrites' = pendingWrites \cup {Len(saveLog) + 1}

\* saveCreds up to its await, run by the closure of some client: the text
\* is built from waSocket.authState.creds as it is at that moment (latest),
\* not from the object of the client the closure belongs to (own), and the
\* upsert is issued.  The log keeps the object beside its text.
SaveCreds(kind, t, i, v, own, latest) ==
    /\ saveLog' = Append(saveLog,
          [sock |-> waSocket, kind |-> kind, text |-> Stringify(latest),
           creds |-> latest, type |-> t, id |-> i, val |-> v])
    /\ pendingWrites' = pendingWrites \cup {Len(saveLog) + 1}

\* Session.upsert of one saveCreds completes: the row holds its text.
UpsertCompletes ==
    /\ Idle
    /\ Running
    /\ \E w \in pendingWrites :
        /\ row' = RowOf(saveLog[w].text)
        /\ pendingWrites' = pendingWrites \ {w}
    /\ resp' = NoResp
    /\ UNCHANGED <<boot, saveLog, waSocket, sessionCreds, creds,
                   sessionRecord, status, subs, timers, initLoading,
                   destroying, nCloses, logoutHandled, freshDue, staleCreds, opening, loaded, destroyed, initFailed>>

\* ------------------------------------------------------------ creds.update
\* Client g raises creds.update: the transport has merged the update into
\* g's authState.creds (the identity once paired, the registration flag,
\* or other credential state, counted by ver), and g's saveCreds runs.  The
\* object of a superseded client is read by no code of the repository.
\* The transport sets the registration flag on credentials that already
\* hold the identity: the pairing-code flow stores the identity when the code
\* is requested and the flag when the pairing completes.
Patched(c, patch) ==
    CASE patch = "me"         -> [c EXCEPT !.me = TRUE, !.account = "bytes"]
      [] patch = "registered" -> [c EXCEPT !.registered = TRUE]
      [] OTHER                -> [c EXCEPT !.ver = c.ver + 1]

CredsUpdate ==
    /\ Idle
    /\ Running
    /\ Events < MaxEvents
    /\ \E g \in subs, patch \in {"me", "registered", "other"} :
        LET obj == IF g = waSocket THEN creds ELSE staleCreds[g]
            own == Patched(obj, patch)
            latest == IF g = waSocket THEN own ELSE creds
        IN /\ patch = "registered" => obj.me
           /\ creds' = latest
           /\ staleCreds' = IF g = waSocket THEN staleCreds
                            ELSE [staleCreds EXCEPT ![g] = own]
           /\ SaveCreds("creds", "", 0, 0, own, latest)
           /\ resp' = [NoResp EXCEPT !.op = "creds", !.superseded = (g # waSocket)]
    /\ UNCHANGED <<boot, row, waSocket, sessionCreds, sessionRecord, status,
                   subs, timers, initLoading, destroying, nCloses,
                   logoutHandled, freshDue, opening, loaded, destroyed, initFailed>>

\* ------------------------------------------------------- connection.update
\* connection === 'open' on client g, up to the await of axios.get: the
\* handler returns to the event loop before it reads anything.
ConnectionOpen ==
    /\ Idle
    /\ Running
    /\ \E g \in subs :
        /\ status[g] = "connecting"
        /\ status' = [status EXCEPT ![g] = "open"]
    /\ opening' = opening + 1
    /\ resp' = NoResp
    /\ UNCHANGED <<boot, row, saveLog, pendingWrites, waSocket, sessionCreds,
                   creds, sessionRecord, subs, timers,
                   initLoading, destroying, nCloses, logoutHandled, freshDue,
                   staleCreds, loaded, destroyed, initFailed>>

\* axios.get settles and an open handler goes on: the self-notification is
\* sent through waSocket as it is now, to waSocket.user.id as it is now.  A
\* rejected request, a missing identity (reading .id of undefined throws) or
\* a failed send is caught and logged.
OpenContinue ==
    /\ Idle
    /\ Running
    /\ opening > 0
    /\ opening' = opening - 1
    /\ \E fetched \in BOOLEAN, delivered \in BOOLEAN :
        resp' = [NoResp EXCEPT !.op = "open",
                    !.calls = IF fetched /\ User THEN 1 ELSE 0,
                    !.val = IF fetched /\ User THEN waSocket ELSE 0,
                    !.result = IF fetched /\ User /\ delivered
                               THEN "sent" ELSE "failed"]
    /\ UNCHANGED <<boot, row, saveLog, pendingWrites, waSocket, sessionCreds,
                   creds, sessionRecord, status, subs, timers,
                   initLoading, destroying, nCloses, logoutHandled, freshDue,
                   staleCreds, loaded, destroyed, initFailed>>

\* shouldReconnect of src/lib/whatsapp.js:86
ShouldReconnect(cause) == cause # "loggedOut"

\* connection === 'close' on client g with a cause other than loggedOut:
\* a timer is set that will invoke initializeWhatsAppClient.
ConnectionCloseReconnect ==
    /\ Idle
    /\ Running
    /\ Events < MaxEvents
    /\ \E g \in subs, cause \in {"connectionLost", "restartRequired"} :
        /\ status[g] \in {"connecting", "open", "closed"}
        /\ ShouldReconnect(cause)
        /\ status' = [status EXCEPT ![g] = "closed"]
        /\ timers' = timers + 1
    /\ nCloses' = nCloses + 1
    /\ resp' = NoResp
    /\ UNCHANGED <<boot, row, saveLog, pendingWrites, waSocket, sessionCreds,
                   creds, sessionRecord, subs, initLoading,
                   destroying, logoutHandled, freshDue, staleCreds, opening, loaded, destroyed, initFailed>>

\* connection === 'close' on client g with cause loggedOut, up to the await
\* of Session.destroy.  The remote side reports a logout over a connection
\* that is still up.
ConnectionCloseLogout ==
    /\ Idle
    /\ Running
    /\ Events < MaxEvents
    /\ \E g \in subs :
        /\ status[g] \in {"connecting", "open"}
        /\ ~ShouldReconnect("loggedOut")
        /\ status' = [status EXCEPT ![g] = "loggedOut"]
    /\ destroying' = destroying + 1
    /\ nCloses' = nCloses + 1
    /\ resp' = NoResp
    /\ UNCHANGED <<boot, row, saveLog, pendingWrites, waSocket, sessionCreds,
                   creds, sessionRecord, subs, timers,
                   initLoading, logoutHandled, freshDue, staleCreds, opening, loaded, destroyed, initFailed>>

\* The store runs the Session.destroy of one waiting logout handler: the row
\* is gone; the handler resumes in a later step.
DestroyDeletes ==
    /\ Idle
    /\ Running
    /\ destroying > 0
    /\ row' = NoRow
    /\ destroying' = destroying - 1
    /\ destroyed' = destroyed + 1
    /\ resp' = NoResp
    /\ UNCHANGED <<boot, saveLog, pendingWrites, waSocket, sessionCreds, creds,
                   sessionRecord, status, subs, timers, initLoading,
                   nCloses, logoutHandled, freshDue, staleCreds, opening,
                   loaded, initFailed>>

\* A logout handler resumes after its delete and runs to its end:
\* sessionCreds is a fresh {}; no timer is set.
LogoutFinish ==
    /\ Idle
    /\ Running
    /\ destroyed > 0
    /\ sessionCreds' = 0
    /\ destroyed' = destroyed - 1
    /\ logoutHandled' = TRUE
    /\ freshDue' = TRUE
    /\ resp' = NoResp
    /\ UNCHANGED <<boot, row, saveLog, pendingWrites, waSocket, creds,
                   sessionRecord, status, subs, timers, initLoading,
                   destroying, nCloses, staleCreds, opening, loaded, initFailed>>

\* --------------------------------------------------------- key-material bridge
\* Object.assign(keys, data): every key type of data replaces the mapping
\* of that type as a whole.
AssignKeys(keys, t, recs) ==
    [keys EXCEPT !.types[t] = [present |-> TRUE, recs |-> recs]]

\* Whether set can merge at all: Object.assign throws a TypeError on an
\* undefined target, which sessionCreds.keys is on credentials without keys.
CanAssign(c) == c.keys.present

\* keys.set(data) of client g's bridge, data = {[t]: {[i]: v}}, up to the
\* await inside saveCreds.
KeysSet ==
    /\ Idle
    /\ Running
    /\ \E g \in subs, t \in KeyTypes, i \in KeyIds, v \in 1..NVals :
        IF CanAssign(Mirror)
        THEN /\ Events < MaxEvents
             /\ LET recs == [k \in KeyIds |-> IF k = i THEN v ELSE 0]
                    c == [creds EXCEPT !.keys = AssignKeys(creds.keys, t, recs)]
                IN /\ creds' = c
                   /\ SaveCreds("set", t, i, v,
                                IF g = waSocket THEN c ELSE staleCreds[g], c)
             /\ resp' = [NoResp EXCEPT !.op = "set", !.result = "ok",
                                       !.superseded = (g # waSocket)]
        ELSE /\ resp' = [NoResp EXCEPT !.op = "set", !.result = "TypeError",
                                       !.superseded = (g # waSocket)]
             /\ UNCHANGED <<creds, saveLog, pendingWrites>>
    /\ UNCHANGED <<boot, row, waSocket, sessionCreds, sessionRecord, status,
                   subs, timers, initLoading, destroying, nCloses,
                   logoutHandled, freshDue, staleCreds, opening, loaded, destroyed, initFailed>>

\* keys.get(type, ids) of a bridge whose closures captured the row rec:
\* JSON.parse(sessionRecord?.creds || '{}').keys[type][ids].  A missing keys
\* mapping or key type makes the property access throw; ids, an array, is
\* used as one property name, which names a record only when it holds
\* exactly one id.
KeysGetResult(rec, t, ids) ==
    LET data == IF rec.exists THEN Parse(rec.creds) ELSE Parse({}) IN
    IF ~data.keys.present \/ ~data.keys.types[t].present
    THEN [result |-> "TypeError", val |-> 0]
    ELSE [result |-> "value",
          val |-> IF Len(ids) = 1 THEN data.keys.types[t].recs[ids[1]] ELSE 0]

IdLists == {<<>>} \cup {<<i>> : i \in KeyIds} \cup {<<1, 2>>}

\* The completed set calls for key (t, i) made while g was the latest client.
SetsDone(g, t, i) ==
    {k \in 1..Len(saveLog) :
        /\ saveLog[k].kind = "set" /\ saveLog[k].sock = g
        /\ saveLog[k].type = t /\ saveLog[k].id = i
        /\ k \notin pendingWrites}

Last(S) == CHOOSE k \in S : \A j \in S : j <= k

\* keys.get of the bridge of client g: it reads the row g's invocation of
\* initializeWhatsAppClient captured.  A completed set counts for the get
\* of the latest client.
KeysGet ==
    /\ Idle
    /\ Running
    /\ \E g \in subs, t \in KeyTypes, ids \in IdLists :
        LET r == KeysGetResult(sessionRecord[g], t, ids)
            done == IF Len(ids) = 1 /\ g = waSocket
                    THEN SetsDone(waSocket, t, ids[1]) ELSE {}
        IN resp' = [NoResp EXCEPT !.op = "get",
                        !.result = r.result, !.val = r.val,
                        !.wasSet = (done # {}),
                        !.expect = IF done # {} THEN saveLog[Last(done)].val ELSE 0]
    /\ UNCHANGED <<boot, row, saveLog, pendingWrites, waSocket, sessionCreds,
                   creds, sessionRecord, status, subs, timers,
                   initLoading, destroying, nCloses, logoutHandled, freshDue,
                   staleCreds, opening, loaded, destroyed, initFailed>>

\* --------------------------------------------------------------- the facade
\* sendMessage(to, message): the observation of one invocation, given the
\* client getWhatsAppClient returned and the outcome of client.sendMessage.
SendMessageResp(client, outcome) ==
    IF client = 0
    THEN [NoResp EXCEPT !.op = "send", !.result = "ClientNotReady"]
    ELSE [NoResp EXCEPT !.op = "send", !.active = TRUE, !.calls = 1,
             !.result = IF outcome = "ok" THEN "ok" ELSE "MessageSendFailed"]

\* Strings are sequences of tokens; '@s.whatsapp.net' is two of them, so that
\* an input may end with a part of the suffix.
Suffix == <<"@", "s.whatsapp.net">>

\* s.endsWith(suf)
EndsWith(s, suf) ==
    /\ Len(s) >= Len(suf)
    /\ SubSeq(s, Len(s) - Len(suf) + 1, Len(s)) = suf

\* to.endsWith('@s.whatsapp.net') ? to : `${to}@s.whatsapp.net`
NormalizeRecipient(to) == IF EndsWith(to, Suffix) THEN to ELSE to \o Suffix

\* The `to` of a request: a string (nothing, a bare identifier, and the same
\* with the suffix), or, in a JSON body, a number: the bare identifier
\* written without quotes.
BareIds == {<<"6", "2">>}
Recipients ==
    {[isString |-> TRUE, text |-> x] :
        x \in {<<>>} \cup BareIds \cup {b \o Suffix : b \in BareIds}}
    \cup {[isString |-> FALSE, text |-> <<"6", "2">>]}

\* /send-message (src/app.js:71-88): 400 without `to` or `message`; a `to`
\* that is no string has no endsWith, the call throws inside the try and the
\* catch answers 500 before sendMessage is invoked; else sendMessage is
\* invoked with the normalized recipient.
SendMessage ==
    /\ Idle
    /\ boot = "listening"
    /\ \E to \in Recipients, message \in {"", "hi"}, outcome \in {"ok", "error"} :
        IF to.text = <<>> \/ message = ""
        THEN resp' = [NoResp EXCEPT !.op = "badRequest", !.result = "400"]
        ELSE IF ~to.isString
        THEN resp' = [NoResp EXCEPT !.op = "sendError", !.result = "500",
                         !.to = to.text, !.toIsString = FALSE]
        ELSE LET r == SendMessageResp(GetWhatsAppClient, outcome) IN
             resp' = [r EXCEPT !.to = to.text,
                         !.rcpt = IF r.calls = 1 THEN NormalizeRecipient(to.text)
                                  ELSE <<>>]
    /\ UNCHANGED <<boot, row, saveLog, pendingWrites, waSocket, sessionCreds,
                   creds, sessionRecord, status, subs, timers,
                   initLoading, destroying, nCloses, logoutHandled, freshDue,
                   staleCreds, opening, loaded, destroyed, initFailed>>

\* client.ws.readyState as a request may find it: the socket of a connecting
\* client is being opened or is open with the login under way, that of an
\* open client is open, that of a closed client is closing or closed.
ReadyStates ==
    IF waSocket = 0 THEN {"CLOSED"}
    ELSE CASE status[waSocket] = "connecting" -> {"CONNECTING", "OPEN"}
           [] status[waSocket] = "open"       -> {"OPEN"}
           [] OTHER                            -> {"CLOSING", "CLOSED"}

\* GET /status (src/app.js:21-47): the answer of one request, given the
\* client getWhatsAppClient returned and client.ws.readyState.
StatusResp(client, ready) ==
    IF client = 0
    THEN [NoResp EXCEPT !.op = "status", !.result = "503",
             !.message = "WhatsApp client not initialized."]
    ELSE [NoResp EXCEPT !.op = "status", !.active = TRUE, !.result = "200",
             !.connection = IF ready = "OPEN" THEN "connected" ELSE "disconnected",
             !.user = User,
             !.message = IF ready = "OPEN" THEN "Connected as" ELSE "Not connected"]

\* A request reaches the handler once the server listens.
Status ==
    /\ Idle
    /\ boot = "listening"
    /\ \E ready \in ReadyStates :
        resp' = StatusResp(GetWhatsAppClient, ready)
    /\ UNCHANGED <<boot, row, saveLog, pendingWrites, waSocket, sessionCreds,
                   creds, sessionRecord, status, subs, timers,
                   initLoading, destroying, nCloses, logoutHandled, freshDue, staleCreds, opening, loaded, destroyed, initFailed>>

\* A grouping that closes every run of 4 with a dash, the last one too.
RECURSIVE FormatCodeTrailing(_)
FormatCodeTrailing(code) ==
    IF Len(code) < 4 THEN code
    ELSE SubSeq(code, 1, 4) \o <<"-">> \o FormatCodeTrailing(SubSeq(code, 5, Len(code)))

\* code?.match(/.{1,4}/g)?.join("-") || code
RECURSIVE FormatCode(_)
FormatCode(code) ==
    IF Len(code) <= 4 THEN code
    ELSE SubSeq(code, 1, 4) \o <<"-">> \o FormatCode(SubSeq(code, 5, Len(code)))

RawCodes == {SubSeq(<<"A", "B", "C", "D", "1", "2", "3", "4", "E", "F", "G", "H">>, 1, n) :
                n \in 0..MaxCodeLen}

\* requestPairingCode without its check of creds.registered.
RequestPairingCodeNoCheck(client, outcome, raw) ==
    IF client = 0
    THEN [NoResp EXCEPT !.op = "pair", !.result = "ClientNotReady"]
    ELSE IF outcome = "ok"
    THEN [NoResp EXCEPT !.op = "pair", !.active = TRUE, !.calls = 1,
             !.result = "ok", !.raw = raw, !.code = FormatCode(raw)]
    ELSE [NoResp EXCEPT !.op = "pair", !.active = TRUE, !.calls = 1,
             !.result = "PairingRequestFailed"]

\* requestPairingCode(phoneNumber): the observation of one invocation.
RequestPairingCodeResp(client, outcome, raw) ==
    IF client = 0
    THEN [NoResp EXCEPT !.op = "pair", !.result = "ClientNotReady"]
    ELSE IF creds.registered
    THEN [NoResp EXCEPT !.op = "pair", !.active = TRUE,
             !.result = "AlreadyRegistered"]
    ELSE IF outcome = "ok"
    THEN [NoResp EXCEPT !.op = "pair", !.active = TRUE, !.calls = 1,
             !.result = "ok", !.raw = raw, !.code = FormatCode(raw)]
    ELSE [NoResp EXCEPT !.op = "pair", !.active = TRUE, !.calls = 1,
             !.result = "PairingRequestFailed"]

RequestPairingCode ==
    /\ Idle
    /\ boot = "listening"
    /\ \E outcome \in {"ok", "error"}, raw \in RawCodes :
        resp' = RequestPairingCodeResp(GetWhatsAppClient, outcome, raw)
    /\ UNCHANGED <<boot, row, saveLog, pendingWrites, waSocket, sessionCreds,
                   creds, sessionRecord, status, subs, timers,
                   initLoading, destroying, nCloses, logoutHandled, freshDue, staleCreds, opening, loaded, destroyed, initFailed>>

\* ------------------------------------------------------------ specification
Next ==
    \/ ValidateApiKey
    \/ ConnectDB
    \/ FindByPkReads
    \/ InitializeWhatsAppClient
    \/ ReconnectTimer
    \/ UpsertCompletes
    \/ CredsUpdate
    \/ ConnectionOpen
    \/ OpenContinue
    \/ ConnectionCloseReconnect
    \/ ConnectionCloseLogout
    \/ DestroyDeletes
    \/ LogoutFinish
    \/ KeysSet
    \/ KeysGet
    \/ SendMessage
    \/ RequestPairingCode
    \/ Status
    \/ Return

Spec == Init /\ [][Next]_vars

\* ------------------------------------------------------------ store outage
\* Session.findByPk rejects (the store cannot be reached) and the invocation
\* of initializeWhatsAppClient ends there, before a client is built.  The
\* startup invocation is awaited by startServer, whose catch exits the
\* process.  Nothing handles the promise of a timer's invocation: the
\* runtime either reports the rejection and goes on or ends the process.
LoadFails ==
    /\ Idle
    /\ Running
    /\ initLoading > 0
    /\ initLoading' = initLoading - 1
    /\ initFailed' = initFailed + 1
    /\ \E unhandled \in {"warn", "exit"} :
          boot' = IF boot = "initialize" \/ unhandled = "exit"
                  THEN "exited" ELSE boot
    /\ resp' = NoResp
    /\ UNCHANGED <<row, saveLog, pendingWrites, waSocket, sessionCreds, creds,
                   sessionRecord, status, subs, timers,
                   destroying, nCloses, logoutHandled, freshDue, staleCreds, opening, loaded, destroyed>>

\* Session.upsert rejects: the row is not written.  saveCreds catches
\* nothing, nor does the creds.update subscription that ran it: the runtime
\* either reports the rejection and goes on or ends the process.
UpsertFails ==
    /\ Idle
    /\ Running
    /\ \E w \in pendingWrites : pendingWrites' = pendingWrites \ {w}
    /\ \E unhandled \in {"warn", "exit"} :
          boot' = IF unhandled = "exit" THEN "exited" ELSE boot
    /\ resp' = NoResp
    /\ UNCHANGED <<row, saveLog, waSocket, sessionCreds, creds,
                   sessionRecord, status, subs, timers, initLoading,
                   destroying, nCloses, logoutHandled, freshDue, staleCreds,
                   opening, loaded, destroyed, initFailed>>

\* Session.destroy rejects: the row stays and the logout handler ends at its
\* await, before it resets sessionCreds.  Nothing catches in the handler.
DestroyFails ==
    /\ Idle
    /\ Running
    /\ destroying > 0
    /\ destroying' = destroying - 1
    /\ \E unhandled \in {"warn", "exit"} :
          boot' = IF unhandled = "exit" THEN "exited" ELSE boot
    /\ resp' = NoResp
    /\ UNCHANGED <<row, saveLog, pendingWrites, waSocket, sessionCreds, creds,
                   sessionRecord, status, subs, timers, initLoading,
                   nCloses, logoutHandled, freshDue, staleCreds, opening,
                   loaded, destroyed, initFailed>>

NextLive ==
    \/ Next
    \/ LoadFails
    \/ UpsertFails
    \/ DestroyFails

\* The event loop runs what is ready: a timer that is due fires, the store
\* answers a read it can answer, an invocation whose read is answered
\* resumes, a caller takes its answer.
Fairness ==
    /\ SF_vars(ReconnectTimer)
    /\ SF_vars(FindByPkReads)
    /\ SF_vars(InitializeWhatsAppClient)
    /\ WF_vars(Return)

SpecLive == Init /\ [][NextLive]_vars /\ Fairness

\* ------------------------------------------------------------ process restart
\* The process ends, its store calls completed, and is started again
\* (startServer, src/app.js:113): the module variables are those of a fresh
\* load (src/lib/whatsapp.js:23-24), the clients of the ended process and
\* their handlers and timers are gone, the Session row stays.
Restart ==
    /\ Idle
    /\ boot # "validate"
    /\ pendingWrites = {}
    /\ destroying = 0 /\ destroyed = 0
    /\ initLoading = 0 /\ loaded = <<>>
    /\ boot' = "validate"
    /\ waSocket' = 0
    /\ sessionCreds' = 0
    /\ creds' = EmptyCreds
    /\ sessionRecord' = [g \in Clients |-> NoRow]
    /\ status' = [g \in Clients |-> "none"]
    /\ subs' = {}
    /\ timers' = 0
    /\ saveLog' = [k \in DOMAIN saveLog |-> [saveLog[k] EXCEPT !.sock = 0]]
    /\ staleCreds' = [g \in Clients |-> EmptyCreds]
    /\ opening' = 0
    /\ resp' = NoResp
    /\ UNCHANGED <<row, pendingWrites, initLoading, destroying, nCloses,
                   logoutHandled, freshDue, loaded, destroyed, initFailed>>

NextRestart ==
    \/ Next
    \/ Restart

SpecRestart == Init /\ [][NextRestart]_vars


\* =================================================================== claims
\* Close notifications with a cause other than loggedOut raised so far: a
\* client turns loggedOut at most once, and only by a logout close.
NonLogoutCloses == nCloses - Cardinality({g \in subs : status[g] = "loggedOut"})

\* C1: every non-logout close leads to exactly one re-invocation of
\* initialize (a timer still pending, or an invocation made beyond the
\* startup one), and a session never has two reconnects pending at once.
C1_ReconnectOncePerClose ==
    Running =>
        /\ timers + (InitCalls - 1) = NonLogoutCloses
        /\ timers <= 1

\* C2: once a logout close has been handled, the Session row does not exist,
\* the state is LoggedOut and no reconnect is scheduled or under way, in
\* every later state.
C2_LogoutIsTerminal ==
    logoutHandled =>
        /\ ~row.exists
        /\ ConnState = "LoggedOut"
        /\ timers = 0 /\ initLoading = 0 /\ loaded = <<>>

\* C3: single writer: no save is triggered through the subscriptions or the
\* key bridge of a client that a reconnect has superseded.
C3_SingleWriter ==
    (resp.op = "creds" \/ (resp.op = "set" /\ resp.result = "ok"))
        => ~resp.superseded

\* Whether credentials c hold the record of the set call logged as entry e.
HasRecord(c, e) ==
    /\ c.keys.present
    /\ c.keys.types[e.type].present
    /\ c.keys.types[e.type].recs[e.id] = e.val

\* No logout has been raised: nothing was asked to delete the row.
NoLogout == \A g \in subs : status[g] # "loggedOut"

\* C4: no lost update: two set calls on disjoint key ids, the only ones
\* made, both completed: the mirror and the Session row hold both records.
C4_NoLostUpdate ==
    \A j, k \in 1..Len(saveLog) :
        ( /\ j < k
          /\ \A n \in 1..Len(saveLog) : saveLog[n].kind = "set" <=> n \in {j, k}
          /\ <<saveLog[j].type, saveLog[j].id>> # <<saveLog[k].type, saveLog[k].id>>
          /\ pendingWrites = {}
          /\ NoLogout /\ Cardinality(subs) = 1 )
        => /\ HasRecord(Mirror, saveLog[j]) /\ HasRecord(Mirror, saveLog[k])
           /\ row.exists
           /\ HasRecord(Parse(row.creds), saveLog[j])
           /\ HasRecord(Parse(row.creds), saveLog[k])

\* C5: credential-update notifications are persisted in the order raised:
\* once every write has completed, the row holds the snapshot of the last
\* notification.
C5_PersistedInOrder ==
    ( /\ saveLog # <<>>
      /\ \A n \in 1..Len(saveLog) : saveLog[n].kind = "creds"
      /\ pendingWrites = {}
      /\ NoLogout )
    => row = RowOf(saveLog[Len(saveLog)].text)

\* C6: getWhatsAppClient returns a client only in state Open.
C6_ClientOnlyWhenOpen ==
    GetWhatsAppClient # 0 => ConnState = "Open"

\* C7: requestPairingCode on credentials that show a completed registration
\* fails with AlreadyRegistered and makes no pairing-code call to the client.
C7_AlreadyRegistered ==
    (resp.op = "pair" /\ creds.registered)
        => resp.result = "AlreadyRegistered" /\ resp.calls = 0

C7_Witness ==
    /\ resp.op = "pair"
    /\ creds.registered
    /\ resp.result = "AlreadyRegistered"

\* C8: sendMessage makes no send and fails with ClientNotReady unless the
\* state is Open, and in state Open makes exactly one send, whose failure is
\* the failure of the call.
C8_SendOnceWhenOpen ==
    resp.op = "send" =>
        /\ resp.calls <= 1
        /\ ConnState # "Open" => (resp.result = "ClientNotReady" /\ resp.calls = 0)
        /\ ConnState = "Open" =>
              (resp.calls = 1 /\ resp.result \in {"ok", "MessageSendFailed"})

\* C9: keys.get never raises.
C9_GetNeverRaises ==
    resp.op = "get" => resp.result # "TypeError"

\* C10: read-your-writes: a get for a key of a completed set of the live
\* connection returns the record that was set.
C10_ReadYourWrites ==
    (resp.op = "get" /\ resp.wasSet)
        => resp.result = "value" /\ resp.val = resp.expect

\* C11: GET /status answers 503 when no connection has ever been initialized
\* and 200 with connection "connected" or "disconnected" in every state
\* after a client was constructed.
C11_StatusCodes ==
    resp.op = "status" =>
        /\ (waSocket = 0 /\ initLoading = 0 /\ loaded = <<>>) => resp.result = "503"
        /\ waSocket # 0 =>
              /\ resp.result = "200"
              /\ resp.connection \in {"connected", "disconnected"}

\* C12: the status query never fails: in every state it answers with a
\* snapshot of the connection, and only with no client constructed it answers
\* that nothing is initialized, with no authenticated identity.
C12_StatusNeverFails ==
    resp.op = "status" =>
        /\ resp.result # "500"
        /\ ConnState = "Uninitialized" =>
              /\ resp.message = "WhatsApp client not initialized."
              /\ ~resp.user
        /\ ConnState # "Uninitialized" =>
              /\ resp.result = "200"
              /\ resp.user = User

\* C13: the pairing code returned holds the characters of the raw code in
\* their order, in consecutive runs of 4 joined by a dash: every fifth
\* character is a dash, the others are the raw characters, and no dash
\* leads or trails.
C13_CodeGrouping ==
    (resp.op = "pair" /\ resp.result = "ok") =>
        LET raw == resp.raw
            code == resp.code
            n == Len(raw)
        IN /\ Len(code) = n + (IF n = 0 THEN 0 ELSE (n - 1) \div 4)
           /\ \A i \in 1..Len(code) :
                 IF i % 5 = 0 THEN code[i] = "-"
                 ELSE code[i] = raw[i - (i \div 5)]
           /\ raw = <<"A", "B", "C", "D", "1", "2", "3", "4">>
                 => code = <<"A", "B", "C", "D", "-", "1", "2", "3", "4">>

C13_Witness ==
    /\ resp.op = "pair"
    /\ resp.result = "ok"
    /\ Len(resp.raw) = 9
    /\ resp.code = <<"A", "B", "C", "D", "-", "1", "2", "3", "4", "-", "E">>

\* C14: with an active client, a request for a bare identifier and one for
\* the same identifier with the suffix both reach the transport, with one
\* address, the identifier followed by one suffix, and normalizing that
\* address again leaves it as it is.
C14_SameRecipient ==
    (resp.op \in {"send", "sendError"} /\ GetWhatsAppClient # 0) =>
        LET bare == IF resp.toIsString /\ EndsWith(resp.to, Suffix)
                    THEN SubSeq(resp.to, 1, Len(resp.to) - Len(Suffix))
                    ELSE resp.to
        IN /\ resp.calls = 1
           /\ resp.rcpt = bare \o Suffix
           /\ NormalizeRecipient(resp.rcpt) = resp.rcpt

\* C15: round trip of the store: while the row holds the blob of a completed
\* save, loading it returns a structure equal to the one that was saved.
C15_RoundTrip ==
    \A w \in 1..Len(saveLog) :
        (w \notin pendingWrites /\ row = RowOf(saveLog[w].text))
            => Parse(row.creds) = saveLog[w].creds

\* C16: the first initialize after a handled logout builds its client on an
\* empty credential set, whatever the logged-out client raised in between.
C16_FreshAfterLogout ==
    [][(freshDue /\ ~freshDue') => creds' = EmptyCreds]_vars

\* C17: reconnection is live: with a reconnect pending (and clients left
\* within the bound), a further client is eventually constructed in a
\* process that goes on running, also when a load of a reconnect attempt
\* fails.
C17_ReconnectLive ==
    \A n \in 0..(MaxClients - 1) :
        (Running /\ timers > 0 /\ Cardinality(subs) = n /\ InitCalls < MaxClients)
            ~> (Cardinality(subs) > n \/ ~Running)

\* C18: write-through of set: every set call merges and saves, also on a
\* session whose loaded credentials are empty, and once the save of the last
\* set has completed the row is the serialized mirror and holds the record.
C18_WriteThrough ==
    /\ resp.op = "set" => resp.result = "ok"
    /\ ( /\ saveLog # <<>>
         /\ saveLog[Len(saveLog)].kind = "set"
         /\ pendingWrites = {}
         /\ NoLogout )
       => /\ row = RowOf(Stringify(Mirror))
          /\ HasRecord(Mirror, saveLog[Len(saveLog)])
          /\ HasRecord(Parse(row.creds), saveLog[Len(saveLog)])

\* C19: startup ordering: a missing API key fails the validation without a
\* call of the entitlement check; every failed validation exits the process
\* with no client constructed and no server listening; and initialize is
\* invoked only in a process whose validation succeeded.
C19_StartupOrdering ==
    /\ resp.op = "validate" =>
          /\ ~resp.key => (resp.result = "ConfigMissing" /\ resp.calls = 0)
          /\ resp.result # "ok" =>
                (boot = "exited" /\ waSocket = 0 /\ subs = {} /\ InitCalls = 0)
          /\ resp.result = "ok" => (boot = "connectDB" /\ waSocket = 0)
    /\ boot \in {"validate", "exited"} =>
          (waSocket = 0 /\ subs = {} /\ InitCalls = 0)

C19_Witness ==
    /\ resp.op = "validate"
    /\ ~resp.key
    /\ resp.result = "ConfigMissing"
    /\ boot = "exited"

\* C20: every save, whichever client's subscription or bridge triggers it,
\* writes the serialized credentials of the latest client, as they are when
\* the save is invoked.
C20_SavesLatestCreds ==
    (resp.op = "creds" \/ (resp.op = "set" /\ resp.result = "ok")) =>
        /\ saveLog[Len(saveLog)].text = Stringify(creds)
        /\ saveLog[Len(saveLog)].sock = waSocket

C20_Witness ==
    /\ resp.op = "creds"
    /\ resp.superseded
    /\ saveLog[Len(saveLog)].text = Stringify(creds)
    /\ \E g \in subs \ {waSocket} :
          Stringify(staleCreds[g]) # saveLog[Len(saveLog)].text

====
